---- MODULE Spec2Model ----
(***************************************************************************)
(* Credential lifecycle (TokenManager / ClientManager) and the statement   *)
(* execution protocol of the Databricks MCP server, as state machine.      *)
(*                                                                         *)
(* Time is a discrete clock `now`.  The external world (credential helper  *)
(* CLI, WorkspaceClient constructor, remote statement) is a                *)
(* nondeterministic choice made inside the action that calls it.           *)
(***************************************************************************)
EXTENDS Integers, Sequences, FiniteSets, TLC

\* ---------------------------------------------------------------- bounds
MaxTime  == 1       \* the clock runs 0..MaxTime
MaxLife  == 1       \* a fetched token expires at fetch time + 0..MaxLife
MaxCalls == 3       \* ClientManager.initialize() calls in one behaviour
MaxInv   == 2       \* tool invocations that may be in flight together
MaxPolls == 2       \* get_statement calls of one get_table_sample
MaxLoginTime == 1   \* clock ticks that may pass while databricks_login runs

Inv == 1..MaxInv

\* ------------------------------------------------------- value encodings
NoneTok      == 0                 \* access_token is None
NoneExp      == 0 - 1             \* token_expiry_datetime is None
ExpMissing   == 0 - 2             \* token JSON has no "expiry" key
ExpUnparsable == 0 - 3            \* "expiry" is not an ISO-8601 timestamp
NoClient     == [token |-> NoneTok]   \* self.client is None

Tools == {"get_schemas", "get_table_sample_tool",
          "get_schema_metadata_tool", "get_job_run_result_tool"}

\* A Python value is a pair <<type, name>>; == compares both.  A member of
\* the SDK's StatementState enum and a str literal with the same name are
\* different values (tables.py imports StatementState at line 9 and
\* compares against it at line 80, and against str literals at line 75).
StatementState(name) == <<"StatementState", name>>
Str(name)            == <<"str", name>>
PyEq(a, b)           == a = b
PyIn(a, list)        == \E x \in list : PyEq(a, x)

VARIABLES
    config_url,                 \* config["workspace"]["url"]: "ok" | "empty"
    client,                     \* ClientManager.client
    initialization_complete,    \* ClientManager._initialization_complete
    access_token,               \* TokenManager.access_token
    token_expiry_datetime,      \* TokenManager.token_expiry_datetime
    now,                        \* datetime.now(timezone.utc)
    calls,                      \* initialize() calls made so far
    last,                       \* what the latest initialize() call did
    ctor_raised,                \* some WorkspaceClient(...) call has raised
    ever_refreshed,             \* some refresh_token call has returned
    running,                    \* invocation holding the event loop, 0 = none
    inv,                        \* per tool invocation: position and locals
    stmt,                       \* per invocation: remote statement state
    tbl,                        \* get_table_sample after SUCCEEDED: its data
    job,                        \* one get_run_result call
    app,                        \* MCPDatabricksApp and its configuration file
    lgn                         \* one databricks_login call, command by command

mgr  == <<config_url, client, initialization_complete, access_token,
          token_expiry_datetime>>
hist == <<calls, last, ctor_raised, ever_refreshed>>
vars == <<config_url, client, initialization_complete, access_token,
          token_expiry_datetime, now, calls, last, ctor_raised, ever_refreshed,
          running, inv, stmt, tbl, job, app, lgn>>
core == <<mgr, hist, now, running, inv, stmt>>
side == <<tbl, job, app, lgn>>

\* ------------------------------------------------------------ TokenManager

\* TokenManager.is_token_expired with the off-by-one a slip would give
is_token_expired_ge(expiry, t) ==
    IF expiry = NoneExp THEN TRUE ELSE t >= expiry

is_token_expired(expiry, t) ==
    IF expiry = NoneExp THEN TRUE ELSE t > expiry

\* Output of `databricks auth token`, as get_databricks_token reads it
NoOut == [exit |-> 1, json_ok |-> FALSE, access_token |-> NoneTok,
          expiry |-> ExpMissing]

\* What the token command, run at time t for the workspace url while the
\* manager holds the token cur, may print.  The manager asks only once cur
\* has expired (or is None), so a token the helper prints is a new one,
\* numbered cur + 1; it expires at t + 0..MaxLife.
HelperOutputs(t, url, cur) ==
    LET failed == {NoOut}
        good == {[exit |-> 0, json_ok |-> TRUE, access_token |-> cur + 1,
                  expiry |-> t + d] : d \in 0..MaxLife}
        bad  == {[exit |-> 0, json_ok |-> FALSE, access_token |-> NoneTok,
                  expiry |-> ExpMissing],
                 [exit |-> 0, json_ok |-> TRUE, access_token |-> NoneTok,
                  expiry |-> t + MaxLife],
                 [exit |-> 0, json_ok |-> TRUE, access_token |-> cur + 1,
                  expiry |-> ExpMissing],
                 [exit |-> 0, json_ok |-> TRUE, access_token |-> cur + 1,
                  expiry |-> ExpUnparsable]}
    IN  IF url = "empty" THEN failed ELSE failed \cup good \cup bad

\* get_databricks_token: one token command, then parse
get_databricks_token(out) ==
    IF out.exit # 0
    THEN [raised |-> "ValueError", msg |-> "Failed to retrieve Databricks token",
          access_token |-> NoneTok, expiry |-> NoneExp]
    ELSE IF ~out.json_ok
    THEN [raised |-> "ValueError", msg |-> "Invalid JSON response",
          access_token |-> NoneTok, expiry |-> NoneExp]
    ELSE IF out.expiry = ExpMissing
    THEN [raised |-> "TypeError", msg |-> "fromisoformat: argument must be str",
          access_token |-> NoneTok, expiry |-> NoneExp]
    ELSE IF out.expiry = ExpUnparsable
    THEN [raised |-> "ValueError", msg |-> "Invalid isoformat string",
          access_token |-> NoneTok, expiry |-> NoneExp]
    ELSE IF out.access_token = NoneTok
    THEN [raised |-> "ValueError", msg |-> "Could not extract access_token",
          access_token |-> NoneTok, expiry |-> NoneExp]
    ELSE [raised |-> "none", msg |-> "",
          access_token |-> out.access_token, expiry |-> out.expiry]

\* refresh_token storing the token before the expiry has been parsed
refresh_token_halfway(tok, expiry, out) ==
    LET r == get_databricks_token(out)
    IN  IF r.raised = "none"
        THEN [access_token |-> r.access_token, expiry |-> r.expiry,
              raised |-> "none", msg |-> "", ret |-> r.access_token,
              cmds |-> <<"token_fetch">>]
        ELSE [access_token |-> IF out.exit = 0 /\ out.json_ok
                               THEN out.access_token ELSE tok,
              expiry |-> expiry,
              raised |-> "ValueError", msg |-> "Token refresh failed",
              ret |-> NoneTok, cmds |-> <<"token_fetch">>]

\* TokenManager.refresh_token: cmds are the external commands it ran
refresh_token(tok, expiry, out) ==
    LET r == get_databricks_token(out)
    IN  IF r.raised = "none"
        THEN [access_token |-> r.access_token, expiry |-> r.expiry,
              raised |-> "none", msg |-> "", ret |-> r.access_token,
              cmds |-> <<"token_fetch">>]
        ELSE [access_token |-> tok, expiry |-> expiry,
              raised |-> "ValueError", msg |-> "Token refresh failed",
              ret |-> NoneTok, cmds |-> <<"token_fetch">>]

NoGvt == [called |-> FALSE, expired |-> FALSE, refreshed |-> FALSE,
          pre_token |-> NoneTok, pre_expiry |-> NoneExp,
          post_token |-> NoneTok, post_expiry |-> NoneExp,
          cmds |-> <<>>, raised |-> "none", msg |-> "", ret |-> NoneTok,
          out |-> NoOut, at |-> 0]

\* get_valid_token that refreshes on every call
get_valid_token_always(tok, expiry, t, out) ==
    LET r == refresh_token(tok, expiry, out)
    IN  [called |-> TRUE, expired |-> is_token_expired(expiry, t),
         refreshed |-> TRUE,
         pre_token |-> tok, pre_expiry |-> expiry,
         post_token |-> r.access_token, post_expiry |-> r.expiry,
         cmds |-> r.cmds, raised |-> r.raised, msg |-> r.msg,
         ret |-> r.ret, out |-> out, at |-> t]

\* TokenManager.get_valid_token, called at time t
get_valid_token(tok, expiry, t, out) ==
    IF is_token_expired(expiry, t)
    THEN LET r == refresh_token(tok, expiry, out)
         IN  [called |-> TRUE, expired |-> TRUE, refreshed |-> TRUE,
              pre_token |-> tok, pre_expiry |-> expiry,
              post_token |-> r.access_token, post_expiry |-> r.expiry,
              cmds |-> r.cmds, raised |-> r.raised, msg |-> r.msg,
              ret |-> r.ret, out |-> out, at |-> t]
    ELSE [called |-> TRUE, expired |-> FALSE, refreshed |-> FALSE,
          pre_token |-> tok, pre_expiry |-> expiry,
          post_token |-> tok, post_expiry |-> expiry,
          cmds |-> <<>>, raised |-> "none", msg |-> "",
          ret |-> tok, out |-> NoOut, at |-> t]

\* --------------------------------------------------------- databricks_login
CmdOutcomes == {"exit0", "nonzero", "timeout", "spawn_error"}

\* status check first; the login command only when the check did not exit 0
databricks_login(st, lg) ==
    IF st = "exit0"
    THEN [ok |-> TRUE, cmds |-> <<"status_check">>]
    ELSE [ok |-> (lg = "exit0"), cmds |-> <<"status_check", "login">>]

\* ------------------------------------------------------------- ClientManager
\* cm: the manager's fields; t: the clock when the call starts;
\* env: what the outside world answers during the call
\*   out     output of the token command, if one is run
\*   st, lg  outcome of the status check and of the login command
\*   dt      time that passes while databricks_login runs
\*   ctor_ok whether WorkspaceClient(host, token) returns

CmResult(cm, tok, expiry, cl, complete, t, path, events, raised, msg, gvt, cf) ==
    [client |-> cl, initialization_complete |-> complete,
     access_token |-> tok, token_expiry_datetime |-> expiry,
     t |-> t, path |-> path, events |-> events,
     raised |-> raised, msg |-> msg, gvt |-> gvt,
     ctor_failed |-> cf]

\* ClientManager._full_initialization
full_initialization(cm, t, env) ==
    IF cm.config_url = "empty"
    THEN CmResult(cm, cm.access_token, cm.token_expiry_datetime, cm.client,
                  cm.initialization_complete, t, "full",
                  <<"validate_config">>,
                  "ValueError", "Missing workspace URL in configuration",
                  NoGvt, FALSE)
    ELSE
    LET login == databricks_login(env.st, env.lg)
        t1    == t + env.dt
    IN  IF ~login.ok
        THEN CmResult(cm, cm.access_token, cm.token_expiry_datetime,
                      cm.client, cm.initialization_complete, t1, "full",
                      <<"validate_config">> \o login.cmds,
                      "ValueError", "Failed to authenticate with Databricks",
                      NoGvt, FALSE)
        ELSE
        LET g  == get_valid_token(cm.access_token, cm.token_expiry_datetime,
                                  t1, env.out)
            ev == <<"validate_config">> \o login.cmds
                    \o <<"get_valid_token">> \o g.cmds
        IN  IF g.raised # "none"
            THEN CmResult(cm, g.post_token, g.post_expiry, cm.client,
                          cm.initialization_complete, t1, "full", ev,
                          g.raised, g.msg, g, FALSE)
            ELSE IF ~env.ctor_ok
            THEN CmResult(cm, g.post_token, g.post_expiry, cm.client,
                          cm.initialization_complete, t1, "full",
                          ev \o <<"construct_client">>,
                          "Exception", "WorkspaceClient construction failed",
                          g, TRUE)
            ELSE CmResult(cm, g.post_token, g.post_expiry,
                          [token |-> g.ret],
                          TRUE, t1, "full",
                          ev \o <<"construct_client">>, "none", "", g, FALSE)

\* _refresh_authentication that also logs in before it fetches the token
refresh_authentication_login(cm, t, env) ==
    LET login == databricks_login(env.st, env.lg)
        g  == get_valid_token(cm.access_token, cm.token_expiry_datetime,
                              t, env.out)
        ev == login.cmds \o <<"get_valid_token">> \o g.cmds
    IN  IF g.raised # "none"
        THEN CmResult(cm, g.post_token, g.post_expiry, cm.client,
                      cm.initialization_complete, t, "refresh", ev,
                      g.raised, g.msg, g, FALSE)
        ELSE CmResult(cm, g.post_token, g.post_expiry,
                      IF env.ctor_ok
                      THEN [token |-> g.ret]
                      ELSE cm.client,
                      cm.initialization_complete, t, "refresh",
                      ev \o <<"construct_client">>,
                      IF env.ctor_ok THEN "none" ELSE "Exception",
                      IF env.ctor_ok THEN ""
                      ELSE "WorkspaceClient construction failed",
                      g, ~env.ctor_ok)

\* ClientManager._refresh_authentication
refresh_authentication(cm, t, env) ==
    LET g  == get_valid_token(cm.access_token, cm.token_expiry_datetime,
                              t, env.out)
        ev == <<"get_valid_token">> \o g.cmds
    IN  IF g.raised # "none"
        THEN CmResult(cm, g.post_token, g.post_expiry, cm.client,
                      cm.initialization_complete, t, "refresh", ev,
                      g.raised, g.msg, g, FALSE)
        ELSE IF ~env.ctor_ok
        THEN CmResult(cm, g.post_token, g.post_expiry, cm.client,
                      cm.initialization_complete, t, "refresh",
                      ev \o <<"construct_client">>,
                      "Exception", "WorkspaceClient construction failed",
                      g, TRUE)
        ELSE CmResult(cm, g.post_token, g.post_expiry,
                      [token |-> g.ret],
                      cm.initialization_complete, t, "refresh",
                      ev \o <<"construct_client">>, "none", "", g, FALSE)

\* initialize that returns early whenever the flag is set
initialize_flag_only(cm, t, env) ==
    IF cm.initialization_complete
    THEN CmResult(cm, cm.access_token, cm.token_expiry_datetime, cm.client,
                  cm.initialization_complete, t, "noop", <<>>, "none", "",
                  NoGvt, FALSE)
    ELSE IF is_token_expired(cm.token_expiry_datetime, t)
    THEN refresh_authentication(cm, t, env)
    ELSE full_initialization(cm, t, env)

\* ClientManager.initialize
initialize(cm, t, env) ==
    IF cm.initialization_complete
       /\ ~is_token_expired(cm.token_expiry_datetime, t)
    THEN CmResult(cm, cm.access_token, cm.token_expiry_datetime, cm.client,
                  cm.initialization_complete, t, "noop", <<>>, "none", "",
                  NoGvt, FALSE)
    ELSE IF is_token_expired(cm.token_expiry_datetime, t)
    THEN refresh_authentication(cm, t, env)
    ELSE full_initialization(cm, t, env)

\* ClientManager.get_client
get_client(cl) ==
    IF cl = NoClient
    THEN [raised |-> "RuntimeError", msg |-> "Client not initialized",
          client |-> NoClient]
    ELSE [raised |-> "none", msg |-> "", client |-> cl]

\* ClientManager.is_initialized
is_initialized(complete, cl) == complete /\ cl # NoClient

\* ------------------------------------------------------------ tool handlers
IdleInv == [pc |-> "idle", tool |-> "none", client |-> NoClient,
            fetches |-> <<>>, error |-> FALSE, sleeps |-> 0, status |-> 0,
            detail |-> <<>>, steps |-> <<>>, used |-> {}]

NoCall == [call |-> 0, at |-> 0, path |-> "none", events |-> <<>>,
           raised |-> "none", msg |-> "", gvt |-> NoGvt,
           pre_complete |-> FALSE, pre_client |-> NoClient,
           pre_token |-> NoneTok, pre_expiry |-> NoneExp, end |-> 0]

\* except clauses of the four tools (registry.py): the job tool maps
\* ValueError to 404, everything else is 500
HttpStatus(tool, raised) ==
    IF tool = "get_job_run_result_tool" /\ raised = "ValueError"
    THEN 404 ELSE 500

Failed(rec, tool, raised, msg) ==
    [rec EXCEPT !.pc = "done", !.tool = tool,
                !.status = HttpStatus(tool, raised), !.detail = <<msg>>]

\* where the data operation of a tool first gives up the event loop:
\* get_schema_list and get_run_result start with asyncio.to_thread,
\* get_table_sample and get_schema_metadata call the SDK directly
FirstPc(tool) ==
    CASE tool = "get_table_sample_tool"    -> "submit"
      [] tool = "get_schema_metadata_tool" -> "op_run"
      [] OTHER                             -> "op_wait"

CoreInit ==
    /\ config_url \in {"ok", "empty"}
    /\ client = NoClient
    /\ initialization_complete = FALSE
    /\ access_token = NoneTok
    /\ token_expiry_datetime = NoneExp
    /\ now = 0
    /\ calls = 0
    /\ last = NoCall
    /\ ctor_raised = FALSE
    /\ ever_refreshed = FALSE
    /\ running = 0
    /\ inv = [i \in Inv |-> IdleInv]
    /\ stmt = [i \in Inv |-> "NONE"]

\* the server with no data pipeline, job lookup or application start-up
\* under way
NoTable == [pc |-> "none"]
NoJob   == [pc |-> "none"]
NoApp   == [pc |-> "none"]
NoLogin == [pc |-> "none"]

Init ==
    /\ CoreInit
    /\ tbl = NoTable
    /\ job = NoJob
    /\ app = NoApp
    /\ lgn = NoLogin

\* What the outside world may answer during one initialize() call made
\* now.  Only the answers the call can ask for are enumerated: the status
\* check and the login command run on the full path (flag unset, token
\* unexpired) with a non-empty URL, the login command only after a status
\* check that did not exit 0, the token command only when the token is
\* expired when get_valid_token looks, the constructor only after that.
LoginRuns ==
    {<<"exit0", "exit0">>}
      \cup {<<st, lg>> : st \in CmdOutcomes \ {"exit0"}, lg \in CmdOutcomes}

Envs ==
    LET expired == is_token_expired(token_expiry_datetime, now)
        noop == initialization_complete /\ ~expired
        full == ~initialization_complete /\ ~expired
        E(out, run, dt, ok) ==
            [out |-> out, st |-> run[1], lg |-> run[2], dt |-> dt,
             ctor_ok |-> ok]
        quiet == <<"exit0", "exit0">>
        Fetches(t, run, dt) ==
            UNION { { E(out, run, dt, ok)
                      : ok \in IF get_databricks_token(out).raised = "none"
                               THEN BOOLEAN ELSE {TRUE} }
                    : out \in HelperOutputs(t, config_url, access_token) }
    IN  IF noop \/ (full /\ config_url = "empty")
        THEN {E(NoOut, quiet, 0, TRUE)}
        ELSE IF ~full
        THEN Fetches(now, quiet, 0)
        ELSE UNION { UNION {
               IF ~databricks_login(run[1], run[2]).ok
               THEN {E(NoOut, run, dt, TRUE)}
               ELSE IF is_token_expired(token_expiry_datetime, now + dt)
               THEN Fetches(now + dt, run, dt)
               ELSE {E(NoOut, run, dt, ok) : ok \in BOOLEAN}
               : run \in LoginRuns }
             : dt \in {d \in 0..MaxLoginTime : now + d <= MaxTime} }

\* A tool handler up to the point where its data operation has the client
\* (the call is served in the first free invocation slot):
\* await client_manager.initialize(); client = client_manager.get_client()
ToolStart(i, tool) ==
    /\ running = 0
    /\ inv[i].pc = "idle"
    /\ \A j \in 1..(i - 1) : inv[j].pc # "idle"
    /\ calls < MaxCalls
    /\ \E env \in Envs :
         LET cm == [config_url |-> config_url, client |-> client,
                    initialization_complete |-> initialization_complete,
                    access_token |-> access_token,
                    token_expiry_datetime |-> token_expiry_datetime]
         IN
                  LET r   == initialize(cm, now, env)
                      gc  == get_client(r.client)
                  IN  /\ client' = r.client
                      /\ initialization_complete' = r.initialization_complete
                      /\ access_token' = r.access_token
                      /\ token_expiry_datetime' = r.token_expiry_datetime
                      /\ now' = r.t
                      /\ calls' = calls + 1
                      /\ last' = [call |-> calls + 1, at |-> now,
                                  path |-> r.path, events |-> r.events,
                                  raised |-> r.raised, msg |-> r.msg,
                                  gvt |-> r.gvt,
                                  pre_complete |-> initialization_complete,
                                  pre_client |-> client,
                                  pre_token |-> access_token,
                                  pre_expiry |-> token_expiry_datetime,
                                  end |-> r.t]
                      /\ ctor_raised' = (ctor_raised \/ r.ctor_failed)
                      /\ ever_refreshed' =
                            (ever_refreshed
                             \/ (r.gvt.refreshed /\ r.gvt.raised = "none"))
                      /\ IF r.raised # "none"
                         THEN /\ inv' = [inv EXCEPT ![i] =
                                   Failed(IdleInv, tool, r.raised, r.msg)]
                              /\ running' = 0
                         ELSE IF gc.raised # "none"
                         THEN /\ inv' = [inv EXCEPT ![i] =
                                   Failed(IdleInv, tool, gc.raised, gc.msg)]
                              /\ running' = 0
                         ELSE /\ inv' = [inv EXCEPT ![i] =
                                   [IdleInv EXCEPT !.pc = FirstPc(tool),
                                                   !.tool = tool,
                                                   !.client = gc.client]]
                              /\ running' = IF FirstPc(tool) = "op_wait"
                                            THEN 0 ELSE i
    /\ UNCHANGED <<config_url, stmt, side>>

\* ------------------------------------------------- get_table_sample (tables.py)
PollList == {Str("PENDING"), Str("RUNNING")}

\* the loop condition of line 75: result.status.state in ["PENDING", "RUNNING"]
still_running(state) == PyIn(state, PollList)

\* line 80: result.status.state != StatementState.SUCCEEDED
not_succeeded_failed_only(state) == PyEq(state, StatementState("FAILED"))
not_succeeded(state) == ~PyEq(state, StatementState("SUCCEEDED"))

QueryFailed(rec, why) ==
    [rec EXCEPT !.pc = "done", !.status = 500,
                !.detail = <<"Failed to execute query">> \o why]

\* The client a remote call of an invocation goes through: the handler's
\* local variable (local), which get_table_sample receives as its
\* parameter, and not what ClientManager.client (shared) is at that time
CallClient_manager(local, shared) == shared
CallClient(local, shared) == local

\* invocation i takes the named step of get_table_sample through a remote
\* call
Step(rec, i, name) ==
    [rec EXCEPT !.steps = Append(@, name),
                !.used = @ \cup {CallClient(inv[i].client, client)}]

\* lines 106-115, reached only when table_metadata_call returned: the
\* merge, then the file writes if save_table_metadata is set
after_metadata_eager(ok, save) ==
    (IF ok THEN <<"merge">> ELSE <<>>)
      \o (IF save THEN <<"persist">> ELSE <<>>)
after_metadata(ok, save) ==
    IF ok
    THEN <<"merge">> \o (IF save THEN <<"persist">> ELSE <<>>)
    ELSE <<>>

\* client.statement_execution.execute_statement(...)
Submit(i) ==
    /\ running = i
    /\ inv[i].pc = "submit"
    /\ \E ok \in BOOLEAN :
         IF ok
         THEN /\ stmt' = [stmt EXCEPT ![i] = "PENDING"]
              /\ inv' = [inv EXCEPT ![i] =
                           [Step(inv[i], i, "submit") EXCEPT !.pc = "fetch"]]
              /\ UNCHANGED running
         ELSE /\ inv' = [inv EXCEPT ![i] =
                           QueryFailed(Step(inv[i], i, "submit"),
                                       <<"transport error">>)]
              /\ running' = 0
              /\ UNCHANGED stmt
    /\ UNCHANGED <<mgr, hist, now, side>>

\* the terminal states a statement can end in without a result
Unsuccessful == {"FAILED", "CANCELED", "CLOSED"}

\* client.statement_execution.get_statement(statement_id); the status of
\* a statement that ended without a result may carry an error
Fetch(i) ==
    /\ running = i
    /\ inv[i].pc = "fetch"
    /\ Len(inv[i].fetches) < MaxPolls
    /\ \E ok \in BOOLEAN :
         IF ok
         THEN /\ \E err \in IF stmt[i] \in Unsuccessful
                            THEN BOOLEAN ELSE {FALSE} :
                   inv' = [inv EXCEPT ![i] =
                    [Step(inv[i], i, "poll") EXCEPT
                       !.fetches = Append(@, StatementState(stmt[i])),
                       !.error = err,
                       !.pc = "check"]]
              /\ UNCHANGED running
         ELSE /\ inv' = [inv EXCEPT ![i] =
                           QueryFailed(Step(inv[i], i, "poll"),
                                       <<"transport error">>)]
              /\ running' = 0
    /\ UNCHANGED <<mgr, hist, now, stmt, side>>

\* the while test and what follows it: sleep, raise, or go on to
\* table_metadata_call, which awaits asyncio.to_thread
LoopCheck(i) ==
    /\ running = i
    /\ inv[i].pc = "check"
    /\ LET state == inv[i].fetches[Len(inv[i].fetches)]
       IN  IF still_running(state)
           THEN /\ inv' = [inv EXCEPT ![i].sleeps = @ + 1,
                                      ![i].pc = "sleeping"]
                /\ running' = 0
           ELSE IF not_succeeded(state)
           THEN /\ inv' = [inv EXCEPT ![i] = QueryFailed(inv[i],
                     <<"Statement execution failed with state", state[2]>>
                     \o IF inv[i].error THEN <<"remote error message">>
                                        ELSE <<>>)]
                /\ running' = 0
           ELSE /\ inv' = [inv EXCEPT ![i] =
                      [Step(inv[i], i, "metadata") EXCEPT !.pc = "meta_wait"]]
                /\ running' = 0
    /\ UNCHANGED <<mgr, hist, now, stmt, side>>

\* The event loop resumes get_table_sample at the await it is suspended
\* in: after asyncio.sleep(1) it fetches the status again; after
\* asyncio.to_thread(client.tables.get), which returned or raised, it runs
\* to the end of the handler
\* (the worker thread made its request, through the client it was given,
\* while the coroutine was suspended)
Resume(i) ==
    /\ running = 0
    /\ inv[i].pc \in {"sleeping", "meta_wait"}
    /\ IF inv[i].pc = "sleeping"
       THEN /\ inv' = [inv EXCEPT ![i].pc = "fetch"]
            /\ running' = i
       ELSE /\ \E ok \in BOOLEAN, save \in BOOLEAN :
                 inv' = [inv EXCEPT ![i].pc = "done",
                            ![i].status = IF ok THEN 200 ELSE 500,
                            ![i].detail = IF ok THEN <<>>
                               ELSE <<"Failed to retrieve table metadata">>,
                            ![i].steps = @ \o after_metadata(ok, save),
                            ![i].used =
                                 @ \cup {CallClient(inv[i].client, client)}]
            /\ UNCHANGED running
    /\ UNCHANGED <<mgr, hist, now, stmt, side>>

\* the ValueError messages of get_run_result (jobs.py 43, 64, 68)
NotFound == "No job, run or failed run found"

\* the data operation of one of the other three tools ends
DataOpDone_dropping_client(i) ==
    /\ \/ inv[i].pc = "op_wait" /\ running = 0
       \/ inv[i].pc = "op_run" /\ running = i
    /\ \E raised \in {"none", "ValueError", "Exception"} :
         /\ raised = "ValueError" => inv[i].tool = "get_job_run_result_tool"
         /\ inv' = [inv EXCEPT ![i].pc = "done",
                 ![i].status = IF raised = "none" THEN 200
                               ELSE HttpStatus(inv[i].tool, raised),
                 ![i].detail = IF raised = "none" THEN <<>>
                               ELSE IF raised = "ValueError"
                               THEN <<NotFound>> ELSE <<raised>>]
    /\ running' = 0
    /\ client' = IF inv'[i].status = 200 THEN client ELSE NoClient
    /\ UNCHANGED <<config_url, initialization_complete, access_token,
                   token_expiry_datetime, hist, now, stmt, side>>
DataOpDone(i) ==
    /\ \/ inv[i].pc = "op_wait" /\ running = 0
       \/ inv[i].pc = "op_run" /\ running = i
    /\ \E raised \in {"none", "ValueError", "Exception"} :
         /\ raised = "ValueError" => inv[i].tool = "get_job_run_result_tool"
         /\ inv' = [inv EXCEPT ![i].pc = "done",
                 ![i].status = IF raised = "none" THEN 200
                               ELSE HttpStatus(inv[i].tool, raised),
                 ![i].detail = IF raised = "none" THEN <<>>
                               ELSE IF raised = "ValueError"
                               THEN <<NotFound>> ELSE <<raised>>]
    /\ running' = 0
    /\ UNCHANGED <<mgr, hist, now, stmt, side>>

\* the caller has the result; the slot serves the next invocation
Return(i) ==
    /\ inv[i].pc = "done"
    /\ inv' = [inv EXCEPT ![i] = IdleInv]
    /\ stmt' = [stmt EXCEPT ![i] = "NONE"]
    /\ UNCHANGED <<mgr, hist, now, running, side>>

\* ------------------------------------------------------------- environment
\* the warehouse moves the statement forward; the program sees the state
\* only through get_statement, so the moves are taken before a fetch
RemoteAdvance(i) ==
    /\ inv[i].pc = "fetch"
    /\ \E s \in {"RUNNING", "SUCCEEDED", "FAILED", "CANCELED", "CLOSED"} :
         /\ \/ stmt[i] = "PENDING" /\ s \in {"RUNNING", "FAILED", "CANCELED"}
            \/ stmt[i] = "RUNNING" /\ s \in {"SUCCEEDED", "FAILED", "CANCELED"}
            \/ stmt[i] = "SUCCEEDED" /\ s = "CLOSED"
         /\ stmt' = [stmt EXCEPT ![i] = s]
    /\ UNCHANGED <<mgr, hist, now, running, inv, side>>

Tick ==
    /\ now < MaxTime
    /\ now' = now + 1
    /\ UNCHANGED <<mgr, hist, running, inv, stmt, side>>

\* the host drives one invocation at a time (spec section 5)
OneAtATime == \A j \in Inv : inv[j].pc = "idle"

\* a tool call arrives from the host
Invoke(i, tool) == OneAtATime /\ ToolStart(i, tool)

Next ==
    \/ \E i \in Inv, tool \in Tools : Invoke(i, tool)
    \/ \E i \in Inv : Submit(i)
    \/ \E i \in Inv : Fetch(i)
    \/ \E i \in Inv : LoopCheck(i)
    \/ \E i \in Inv : Resume(i)
    \/ \E i \in Inv : DataOpDone(i)
    \/ \E i \in Inv : Return(i)
    \/ \E i \in Inv : RemoteAdvance(i)
    \/ Tick

Spec == Init /\ [][Next]_vars

\* ------------------------------------------------ concurrent invocations
\* get_table_sample_tool when the host does not wait for one call to
\* return before it sends the next.  On the single event loop a coroutine
\* runs until it reaches an await that really suspends; the handler has
\* none before table_metadata_call (initialize() and databricks_login
\* block in subprocess calls, execute_statement and get_statement are
\* direct SDK calls, the sleep of line 77 is behind the loop test of
\* line 75).  So one step takes a call from its arrival to
\* asyncio.to_thread, or to the error it returns.
StatementStates ==
    {"PENDING", "RUNNING", "SUCCEEDED", "FAILED", "CANCELED", "CLOSED"}

\* (the first definition is the step as it would be if initialize() gave
\* up the event loop between storing the fetched token and rebuilding the
\* client)
RunToAwait_suspending(i) ==
    /\ running = 0
    /\ inv[i].pc = "idle"
    /\ \A j \in 1..(i - 1) : inv[j].pc # "idle"
    /\ calls < MaxCalls
    /\ \E env \in Envs, submit_ok \in BOOLEAN, fetch_ok \in BOOLEAN,
          s \in StatementStates :
         LET cm == [config_url |-> config_url, client |-> client,
                    initialization_complete |-> initialization_complete,
                    access_token |-> access_token,
                    token_expiry_datetime |-> token_expiry_datetime]
             r     == initialize(cm, now, env)
             gc    == get_client(r.client)
             state == StatementState(s)
             on    == CallClient(gc.client, r.client)
             rec   == [IdleInv EXCEPT !.tool = "get_table_sample_tool",
                                      !.client = gc.client,
                                      !.fetches = <<state>>,
                                      !.used = {on}]
         IN  /\ client' = IF r.access_token # access_token THEN client
                                                             ELSE r.client
             /\ initialization_complete' = r.initialization_complete
             /\ access_token' = r.access_token
             /\ token_expiry_datetime' = r.token_expiry_datetime
             /\ now' = r.t
             /\ calls' = calls + 1
             /\ ctor_raised' = (ctor_raised \/ r.ctor_failed)
             /\ ever_refreshed' =
                   (ever_refreshed \/ (r.gvt.refreshed /\ r.gvt.raised = "none"))
             /\ IF \/ r.raised # "none"
                   \/ gc.raised # "none"
                   \/ ~submit_ok
                   \/ ~fetch_ok
                   \/ (~still_running(state) /\ not_succeeded(state))
                THEN inv' = [inv EXCEPT ![i] = IdleInv]
                ELSE IF still_running(state)
                THEN inv' = [inv EXCEPT ![i] =
                        [rec EXCEPT !.pc = "sleeping", !.sleeps = 1,
                                    !.steps = <<"submit", "poll">>]]
                ELSE inv' = [inv EXCEPT ![i] =
                        [rec EXCEPT !.pc = "meta_wait",
                                    !.steps = <<"submit", "poll", "metadata">>]]
    /\ UNCHANGED <<config_url, last, running, stmt, side>>
RunToAwait(i) ==
    /\ running = 0
    /\ inv[i].pc = "idle"
    /\ \A j \in 1..(i - 1) : inv[j].pc # "idle"
    /\ calls < MaxCalls
    /\ \E env \in Envs, submit_ok \in BOOLEAN, fetch_ok \in BOOLEAN,
          s \in StatementStates :
         LET cm == [config_url |-> config_url, client |-> client,
                    initialization_complete |-> initialization_complete,
                    access_token |-> access_token,
                    token_expiry_datetime |-> token_expiry_datetime]
             r     == initialize(cm, now, env)
             gc    == get_client(r.client)
             state == StatementState(s)
             on    == CallClient(gc.client, r.client)
             rec   == [IdleInv EXCEPT !.tool = "get_table_sample_tool",
                                      !.client = gc.client,
                                      !.fetches = <<state>>,
                                      !.used = {on}]
         IN  /\ client' = r.client
             /\ initialization_complete' = r.initialization_complete
             /\ access_token' = r.access_token
             /\ token_expiry_datetime' = r.token_expiry_datetime
             /\ now' = r.t
             /\ calls' = calls + 1
             /\ ctor_raised' = (ctor_raised \/ r.ctor_failed)
             /\ ever_refreshed' =
                   (ever_refreshed \/ (r.gvt.refreshed /\ r.gvt.raised = "none"))
             /\ IF \/ r.raised # "none"
                   \/ gc.raised # "none"
                   \/ ~submit_ok
                   \/ ~fetch_ok
                   \/ (~still_running(state) /\ not_succeeded(state))
                THEN inv' = [inv EXCEPT ![i] = IdleInv]
                ELSE IF still_running(state)
                THEN inv' = [inv EXCEPT ![i] =
                        [rec EXCEPT !.pc = "sleeping", !.sleeps = 1,
                                    !.steps = <<"submit", "poll">>]]
                ELSE inv' = [inv EXCEPT ![i] =
                        [rec EXCEPT !.pc = "meta_wait",
                                    !.steps = <<"submit", "poll", "metadata">>]]
    /\ UNCHANGED <<config_url, last, running, stmt, side>>

NextConc ==
    \/ \E i \in Inv : RunToAwait(i)
    \/ \E i \in Inv : Resume(i)
    \/ \E i \in Inv : Return(i)
    \/ Tick

SpecConc == Init /\ [][NextConc]_vars

\* ============================== get_table_sample after SUCCEEDED (tables.py)
\* The data half of get_table_sample, lines 90-118: the result of a
\* SUCCEEDED statement is turned into row mappings, the table's metadata
\* is fetched, the sampled values are merged into it, both are optionally
\* written to disk, and the metadata is returned.
MaxRows == 2        \* rows of a statement result (sample_size)

Names  == {"a", "b"}            \* column names of the sampled table
Values == {1, 2}                \* cell values
MetaNames == Names \cup {"c"}   \* column names tables.get may report

Min(x, y) == IF x < y THEN x ELSE y

\* sequences without repetition over S, of length lo..hi
InjSeqs(S, lo, hi) ==
    UNION { {q \in [1..k -> S] : \A x, y \in 1..k : x # y => q[x] # q[y]}
            : k \in lo..hi }

\* result.manifest.schema columns of SELECT * FROM one table: its column
\* names, each once
Manifests == InjSeqs(Names, 1, Cardinality(Names))

\* result.result.data_array of a manifest with n columns: up to MaxRows
\* rows, each with a value per column or cut short by one
DataArrays(n) ==
    UNION { [1..m -> [1..n -> Values] \cup [1..(n - 1) -> Values]]
            : m \in 0..MaxRows }

\* What a SUCCEEDED statement without rows looks like to line 90:
\* "absent" (result is None, or as_dict() leaves the empty data_array out;
\* the older revision src/utils.py:198 guards against both) or "empty" (the
\* key is there with an empty list)
EmptyShapes == {"absent", "empty"}

\* a Python dict: its keys in insertion order and the value of each key
EmptyDict == [keys |-> <<>>, val |-> [x \in {} |-> 0]]

DictSet(d, k, v) ==
    [keys |-> IF \E j \in 1..Len(d.keys) : d.keys[j] = k
              THEN d.keys ELSE Append(d.keys, k),
     val  |-> [x \in DOMAIN d.val \cup {k} |->
                  IF x = k THEN v ELSE d.val[x]]]

HasKey(d, k) == k \in DOMAIN d.val

\* dict(zip(column_names, row)), line 94
dict_zip(column_names, row) ==
    LET n == Min(Len(column_names), Len(row))
        F[j \in 0..n] ==
            IF j = 0 THEN EmptyDict
            ELSE DictSet(F[j - 1], column_names[j], row[j])
    IN  F[n]

\* lines 90-94: sample_dict, or the exception of line 90
sample_rows(column_names, data, shape) ==
    IF Len(data) = 0 /\ shape = "absent"
    THEN [raised |-> "KeyError", sample_dict |-> <<>>]
    ELSE [raised |-> "none",
          sample_dict |-> [i \in 1..Len(data) |->
                              dict_zip(column_names, data[i])]]

\* table_metadata_call, tables.py 168-201: the dict built from TableInfo;
\* a column_info has no 'sample_values' key yet
table_dict(meta_cols) ==
    [columns |-> [j \in 1..Len(meta_cols) |->
                     [name |-> meta_cols[j], has_sample_values |-> FALSE,
                      sample_values |-> <<>>]]]

\* line 111: [row.get(c) for row in sample_dict if c in row]
column_sample_values_padded(c, sample_dict) ==
    [k \in 1..Len(sample_dict) |->
        IF HasKey(sample_dict[k], c) THEN sample_dict[k].val[c] ELSE 0]
column_sample_values(c, sample_dict) ==
    LET F[k \in 0..Len(sample_dict)] ==
            IF k = 0 THEN <<>>
            ELSE IF HasKey(sample_dict[k], c)
            THEN Append(F[k - 1], sample_dict[k].val[c])
            ELSE F[k - 1]
    IN  F[Len(sample_dict)]

\* lines 107-112: the merge, skipped when there are no sampled rows
merge_samples(table_metadata, sample_dict) ==
    IF Len(sample_dict) = 0
    THEN table_metadata
    ELSE [columns |-> [j \in 1..Len(table_metadata.columns) |->
            [name |-> table_metadata.columns[j].name,
             has_sample_values |-> TRUE,
             sample_values |->
                 column_sample_values(table_metadata.columns[j].name,
                                      sample_dict)]]]

\* _save_table_data (210-247): the file operations it attempts, in order,
\* when ./.input_data does or does not exist yet
SaveSteps(dir_exists) ==
    (IF dir_exists THEN <<>> ELSE <<"makedirs", "gitignore">>)
      \o <<"table_folder", "sample_data.json", "table_metadata.json">>

\* the steps done before the one that fails (0: none fails); the except
\* clause of line 245 logs and does not raise
save_table_data_raising(dir_exists, fail_at) ==
    LET steps == SaveSteps(dir_exists)
    IN  IF fail_at = 0
        THEN [written |-> steps, raised |-> "none"]
        ELSE [written |-> SubSeq(steps, 1, fail_at - 1), raised |-> "OSError"]
save_table_data(dir_exists, fail_at) ==
    LET steps == SaveSteps(dir_exists)
    IN  IF fail_at = 0
        THEN [written |-> steps, raised |-> "none"]
        ELSE [written |-> SubSeq(steps, 1, fail_at - 1), raised |-> "none"]

\* a SUCCEEDED statement result arrives for a table, with the
\* save_table_metadata setting of the configuration
InitTable ==
    /\ CoreInit
    /\ config_url = "ok"
    /\ job = NoJob
    /\ app = NoApp
    /\ lgn = NoLogin
    /\ \E cols \in Manifests :
         \E data \in DataArrays(Len(cols)) :
           \E shape \in IF Len(data) = 0 THEN EmptyShapes ELSE {"rows"} :
             \E save \in BOOLEAN :
               tbl = [pc |-> "succeeded", column_names |-> cols,
                      data_array |-> data, shape |-> shape,
                      save_table_metadata |-> save,
                      sample_dict |-> <<>>, meta_cols |-> <<>>,
                      table_metadata |-> table_dict(<<>>),
                      dir_exists |-> FALSE, fail_at |-> 0, written |-> <<>>,
                      raised |-> "none", msg |-> "",
                      result |-> table_dict(<<>>)]

\* lines 90-94
SampleRows ==
    /\ tbl.pc = "succeeded"
    /\ LET r == sample_rows(tbl.column_names, tbl.data_array, tbl.shape)
       IN  tbl' = IF r.raised # "none"
                  THEN [tbl EXCEPT !.pc = "raised", !.raised = r.raised]
                  ELSE [tbl EXCEPT !.pc = "rows",
                                   !.sample_dict = r.sample_dict]
    /\ UNCHANGED <<core, job, app, lgn>>

\* lines 98-112: table_metadata_call returns the table's columns or
\* raises, then the merge
MetadataMerge ==
    /\ tbl.pc = "rows"
    /\ \/ tbl' = [tbl EXCEPT !.pc = "raised", !.raised = "Exception",
                     !.msg = "Failed to retrieve table metadata"]
       \/ \E mc \in InjSeqs(MetaNames, 0, Cardinality(Names)) :
            tbl' = [tbl EXCEPT !.pc = "merged", !.meta_cols = mc,
                       !.table_metadata =
                           merge_samples(table_dict(mc), tbl.sample_dict)]
    /\ UNCHANGED <<core, job, app, lgn>>

\* lines 114-118: optional persistence, then return table_metadata
SaveAndReturn ==
    /\ tbl.pc = "merged"
    /\ IF ~tbl.save_table_metadata
       THEN tbl' = [tbl EXCEPT !.pc = "returned",
                               !.result = tbl.table_metadata]
       ELSE \E dir_exists \in BOOLEAN :
              \E fail_at \in 0..Len(SaveSteps(dir_exists)) :
                LET r == save_table_data(dir_exists, fail_at)
                IN  tbl' = IF r.raised # "none"
                           THEN [tbl EXCEPT !.pc = "raised",
                                    !.dir_exists = dir_exists,
                                    !.fail_at = fail_at,
                                    !.written = r.written,
                                    !.raised = r.raised]
                           ELSE [tbl EXCEPT !.pc = "returned",
                                    !.dir_exists = dir_exists,
                                    !.fail_at = fail_at,
                                    !.written = r.written,
                                    !.result = tbl.table_metadata]
    /\ UNCHANGED <<core, job, app, lgn>>

NextTable == SampleRows \/ MetadataMerge \/ SaveAndReturn

SpecTable == InitTable /\ [][NextTable]_vars

\* ================================================ get_run_result (jobs.py)
MaxRuns  == 3       \* completed runs list_runs may return
MaxTasks == 2       \* tasks of the selected run

ResultStates == {"SUCCESS", "FAILED"}
NoneId == 0                       \* run_id / last_failed_id is None

\* What jobs.list(name=..., limit=1) hands back: the repository does not
\* fix whether it is a list (falsy when empty) or an iterator (never
\* falsy); line 45 calls list() on it either way
JobListKinds == {"list", "iterator"}

\* jobs.list_runs(job_id, completed_only=True): the completed runs, most
\* recent first (descending start time), each with a result state
RunRecs == [run_id : {10 + t : t \in 1..MaxRuns}, start_time : 1..MaxRuns,
            result_state : ResultStates]
RunLists ==
    UNION { {q \in [1..k -> RunRecs] :
               /\ \A x \in 1..k : q[x].run_id = 10 + q[x].start_time
               /\ \A x, y \in 1..k :
                    x < y => q[x].start_time > q[y].start_time}
            : k \in 0..MaxRuns }

\* run_result.tasks: in any order; the task at position k has run_id 20 + k
TaskRecs == [end_time : 1..MaxTasks, result_state : ResultStates]
TaskLists == UNION { [1..m -> TaskRecs] : m \in 0..MaxTasks }
TaskId(k) == 20 + k

\* line 41: if not job_id
not_job_id(found, kind) == kind = "list" /\ ~found

\* lines 41-45
find_job(found, kind) ==
    IF not_job_id(found, kind)
    THEN [raised |-> "ValueError", msg |-> "No job found with name"]
    ELSE IF ~found
    THEN [raised |-> "IndexError", msg |-> "list index out of range"]
    ELSE [raised |-> "none", msg |-> ""]

\* lines 54-68
select_run_last(run_list, filter_for_failed_runs) ==
    LET failed == {k \in 1..Len(run_list) :
                      run_list[k].result_state = "FAILED"}
    IN  IF ~filter_for_failed_runs
        THEN IF Len(run_list) = 0
             THEN [raised |-> "IndexError", msg |-> "list index out of range",
                   run_id |-> NoneId]
             ELSE [raised |-> "none", msg |-> "",
                   run_id |-> run_list[Len(run_list)].run_id]
        ELSE IF failed = {}
             THEN [raised |-> "ValueError", msg |-> "No failed runs found",
                   run_id |-> NoneId]
             ELSE [raised |-> "none", msg |-> "",
                   run_id |-> run_list[CHOOSE k \in failed :
                                  \A h \in failed : h <= k].run_id]
select_run(run_list, filter_for_failed_runs) ==
    LET failed == {k \in 1..Len(run_list) :
                      run_list[k].result_state = "FAILED"}
    IN  IF ~filter_for_failed_runs
        THEN IF Len(run_list) = 0
             THEN [raised |-> "IndexError", msg |-> "list index out of range",
                   run_id |-> NoneId]
             ELSE [raised |-> "none", msg |-> "",
                   run_id |-> run_list[1].run_id]
        ELSE IF failed = {}
             THEN [raised |-> "ValueError", msg |-> "No failed runs found",
                   run_id |-> NoneId]
             ELSE [raised |-> "none", msg |-> "",
                   run_id |-> run_list[CHOOSE k \in failed :
                                  \A h \in failed : k <= h].run_id]

\* lines 76-82: the loop over run_result.tasks; the pair is
\* <<last_failed_id, last_timestamp>>
pick_task_blocking(tasks, filter_for_failed_runs) ==
    LET F[k \in 0..Len(tasks)] ==
            IF k = 0 THEN <<NoneId, 0 - 999>>
            ELSE IF tasks[k].end_time > F[k - 1][2]
            THEN IF ~filter_for_failed_runs
                    \/ tasks[k].result_state = "FAILED"
                 THEN <<TaskId(k), tasks[k].end_time>>
                 ELSE <<F[k - 1][1], tasks[k].end_time>>
            ELSE F[k - 1]
    IN  F[Len(tasks)][1]
pick_task(tasks, filter_for_failed_runs) ==
    LET F[k \in 0..Len(tasks)] ==
            IF k = 0 THEN <<NoneId, 0 - 999>>
            ELSE IF tasks[k].end_time > F[k - 1][2]
            THEN IF ~filter_for_failed_runs
                    \/ tasks[k].result_state = "FAILED"
                 THEN <<TaskId(k), tasks[k].end_time>>
                 ELSE F[k - 1]
            ELSE F[k - 1]
    IN  F[Len(tasks)][1]

\* get_run_result(job_name, client, logger, filter_for_failed_runs) is
\* called; calls lists the SDK calls it has made, answered how many of
\* them returned
InitJobs ==
    /\ CoreInit
    /\ config_url = "ok"
    /\ tbl = NoTable
    /\ app = NoApp
    /\ lgn = NoLogin
    /\ \E f \in BOOLEAN :
         job = [pc |-> "list_jobs", filter_for_failed_runs |-> f,
                found |-> FALSE, kind |-> "list", run_list |-> <<>>,
                run_id |-> NoneId, tasks |-> <<>>,
                last_failed_id |-> NoneId, output_of |-> NoneId,
                calls |-> <<>>, answered |-> 0,
                raised |-> "none", msg |-> ""]

\* an SDK call raises; lines 96-98 re-raise
SdkError(rec, call) ==
    [rec EXCEPT !.pc = "raised", !.calls = Append(rec.calls, call),
                !.raised = "Exception", !.msg = "SDK error"]

\* lines 35-45: jobs.list, then the job id
ListJobs ==
    /\ job.pc = "list_jobs"
    /\ \/ job' = SdkError(job, "jobs.list")
       \/ \E found \in BOOLEAN, kind \in JobListKinds :
            LET r == find_job(found, kind)
                j == [job EXCEPT !.calls = Append(job.calls, "jobs.list"),
                                 !.answered = 1,
                                 !.found = found, !.kind = kind]
            IN  job' = IF r.raised # "none"
                       THEN [j EXCEPT !.pc = "raised", !.raised = r.raised,
                                      !.msg = r.msg]
                       ELSE [j EXCEPT !.pc = "list_runs"]
    /\ UNCHANGED <<core, tbl, app, lgn>>

\* lines 48-68: jobs.list_runs, then the run id
ListRuns ==
    /\ job.pc = "list_runs"
    /\ \/ job' = SdkError(job, "jobs.list_runs")
       \/ \E runs \in RunLists :
            LET r == select_run(runs, job.filter_for_failed_runs)
                j == [job EXCEPT
                        !.calls = Append(job.calls, "jobs.list_runs"),
                        !.answered = 2, !.run_list = runs]
            IN  job' = IF r.raised # "none"
                       THEN [j EXCEPT !.pc = "raised", !.raised = r.raised,
                                      !.msg = r.msg]
                       ELSE [j EXCEPT !.pc = "get_run", !.run_id = r.run_id]
    /\ UNCHANGED <<core, tbl, app, lgn>>

\* lines 71-82: jobs.get_run, then the task whose output is wanted
GetRun ==
    /\ job.pc = "get_run"
    /\ \/ job' = SdkError(job, "jobs.get_run")
       \/ \E tasks \in TaskLists :
            job' = [job EXCEPT
                      !.calls = Append(job.calls, "jobs.get_run"),
                      !.answered = 3, !.tasks = tasks,
                      !.last_failed_id =
                          pick_task(tasks, job.filter_for_failed_runs),
                      !.pc = "get_run_output"]
    /\ UNCHANGED <<core, tbl, app, lgn>>

\* lines 84-91: jobs.get_run_output(run_id=last_failed_id), then the
\* text; without a run id the call cannot succeed
GetRunOutput ==
    /\ job.pc = "get_run_output"
    /\ \/ job' = [SdkError(job, "jobs.get_run_output") EXCEPT
                     !.output_of = job.last_failed_id]
       \/ /\ job.last_failed_id # NoneId
          /\ job' = [job EXCEPT
                       !.calls = Append(job.calls, "jobs.get_run_output"),
                       !.answered = 4,
                       !.output_of = job.last_failed_id,
                       !.pc = "returned"]
    /\ UNCHANGED <<core, tbl, app, lgn>>

NextJobs == ListJobs \/ ListRuns \/ GetRun \/ GetRunOutput

SpecJobs == InitJobs /\ [][NextJobs]_vars

\* ===================================== MCPDatabricksApp (app.py, loader.py)
MaxAppInits == 2    \* MCPDatabricksApp.initialize() calls in one behaviour

\* the type of a value in config.yaml, or "absent" when the key is missing
YamlTypes == {"absent", "str", "int", "bool"}

\* a value in config.yaml as far as the program looks at it: its type,
\* and for a string whether it is empty (`not value`)
YamlValues == YamlTypes \cup {"empty_str"}
TypeOf(v) == IF v = "empty_str" THEN "str" ELSE v

\* required_fields and optional_fields of validate_config_structure, in
\* the order the loops visit them (the optional fields are represented by
\* save_table_metadata)
RequiredFields == <<"url", "warehouse_id", "sample_size", "warehouse_name">>
OptionalFields == <<"save_table_metadata">>
FieldType == [url |-> "str", warehouse_id |-> "str", sample_size |-> "int",
              warehouse_name |-> "str", save_table_metadata |-> "bool"]

\* what find_config_file / yaml.safe_load give load_config: no file, a
\* file that is not YAML, an empty document (None), a mapping without the
\* workspace section, or a workspace section with a type per field
Workspaces ==
    [url : YamlValues, warehouse_id : YamlValues, sample_size : YamlTypes,
     warehouse_name : YamlTypes,
     save_table_metadata : {"absent", "bool", "str"}]
ConfigFiles ==
    {[top |-> t, workspace |-> [f \in DOMAIN FieldType |-> "absent"]]
        : t \in {"missing", "unparsable", "none", "no_workspace"}}
      \cup {[top |-> "workspace", workspace |-> w] : w \in Workspaces}

\* isinstance(value, field_type): bool is a subclass of int
isinstance(v, field_type) ==
    TypeOf(v) = field_type \/ (TypeOf(v) = "bool" /\ field_type = "int")

\* validate_config_structure (loader.py 34-90)
validate_config_structure(file) ==
    IF file.top # "workspace"
    THEN FALSE
    ELSE /\ \A k \in 1..Len(RequiredFields) :
              LET f == RequiredFields[k]
              IN  /\ file.workspace[f] # "absent"
                  /\ isinstance(file.workspace[f], FieldType[f])
         /\ \A k \in 1..Len(OptionalFields) :
              LET f == OptionalFields[k]
              IN  file.workspace[f] # "absent"
                  => isinstance(file.workspace[f], FieldType[f])

\* load_config (loader.py 92-129)
load_config(file) ==
    IF file.top = "missing"
    THEN [raised |-> "Exception", msg |-> "Configuration file not found"]
    ELSE IF file.top = "unparsable"
    THEN [raised |-> "Exception", msg |-> "Error loading config.yaml"]
    ELSE IF ~validate_config_structure(file)
    THEN [raised |-> "Exception", msg |-> "Invalid configuration structure"]
    ELSE [raised |-> "none", msg |-> ""]

NoneObj == 0                      \* an attribute that is None
NoOp == [op |-> "none", raised |-> "none", returned |-> NoneObj,
         effects |-> <<>>]

\* MCPDatabricksApp.initialize (app.py 20-44); n numbers the objects this
\* call creates; effects lists what the call did outside the object
app_initialize(a, file, server_ok, n) ==
    LET lc == load_config(file)
        read == <<"setup_logging", "load_config">>
    IN  IF lc.raised # "none"
        THEN [a EXCEPT !.logger = TRUE,
                 !.last = [op |-> "initialize", raised |-> lc.raised,
                           returned |-> NoneObj, effects |-> read]]
        ELSE IF ~server_ok
        THEN [a EXCEPT !.logger = TRUE, !.config = n,
                 !.client_manager = n,
                 !.last = [op |-> "initialize", raised |-> "Exception",
                           returned |-> NoneObj,
                           effects |-> read \o <<"ClientManager",
                                                 "create_mcp_server">>]]
        ELSE [a EXCEPT !.logger = TRUE, !.config = n,
                 !.client_manager = n,
                 !.mcp_server = [id |-> n, tools |-> Tools,
                                 client_manager |-> n],
                 !.last = [op |-> "initialize", raised |-> "none",
                           returned |-> NoneObj,
                           effects |-> read \o <<"ClientManager",
                                                 "create_mcp_server">>]]

NoServer == [id |-> NoneObj, tools |-> {}, client_manager |-> NoneObj]

\* MCPDatabricksApp.get_mcp_server (app.py 46-50)
get_mcp_server_unchecked(a) ==
    [op |-> "get_mcp_server", raised |-> "none",
     returned |-> a.mcp_server.id, effects |-> <<>>]
get_mcp_server(a) ==
    IF a.mcp_server = NoServer
    THEN [op |-> "get_mcp_server", raised |-> "RuntimeError",
          returned |-> NoneObj, effects |-> <<>>]
    ELSE [op |-> "get_mcp_server", raised |-> "none",
          returned |-> a.mcp_server.id, effects |-> <<>>]

\* MCPDatabricksApp.run (app.py 52-58)
run(a) ==
    IF a.mcp_server = NoServer
    THEN [op |-> "run", raised |-> "RuntimeError", returned |-> NoneObj,
          effects |-> <<>>]
    ELSE [op |-> "run", raised |-> "none", returned |-> NoneObj,
          effects |-> <<"mcp_server.run">>]

\* MCPDatabricksApp() with some config.yaml on disk; inits counts the
\* initialize() calls, ever_ok records that one of them returned
InitApp ==
    /\ CoreInit
    /\ config_url = "ok"
    /\ tbl = NoTable
    /\ job = NoJob
    /\ lgn = NoLogin
    /\ \E file \in ConfigFiles :
         app = [pc |-> "created", file |-> file, logger |-> FALSE,
                config |-> NoneObj, client_manager |-> NoneObj,
                mcp_server |-> NoServer, inits |-> 0, ever_ok |-> FALSE,
                failed |-> 0, last |-> NoOp]

AppInitialize ==
    /\ app.inits < MaxAppInits
    /\ \E server_ok \in BOOLEAN :
         LET a == app_initialize(app, app.file, server_ok, app.inits + 1)
         IN  app' = [a EXCEPT !.inits = app.inits + 1,
                        !.ever_ok = app.ever_ok \/ a.last.raised = "none",
                        !.failed = IF a.last.raised = "none"
                                   THEN app.failed ELSE app.failed + 1]
    /\ UNCHANGED <<core, tbl, job, lgn>>

AppGetMcpServer ==
    /\ app' = [app EXCEPT !.last = get_mcp_server(app)]
    /\ UNCHANGED <<core, tbl, job, lgn>>

AppRun ==
    /\ app' = [app EXCEPT !.last = run(app)]
    /\ UNCHANGED <<core, tbl, job, lgn>>

NextApp == AppInitialize \/ AppGetMcpServer \/ AppRun

SpecApp == InitApp /\ [][NextApp]_vars

\* ============================================== databricks_login in detail
\* One call of databricks_login, one action per child process.  Each child
\* is described by what it would do if left alone: whether Popen can start
\* it, how many seconds it runs, and its exit code.

StatusTimeout == 15     \* process.communicate(timeout=15)
LoginTimeout  == 30     \* process.communicate(timeout=30)
MaxDur        == 31     \* longest run time of a child that is considered
ExitCodes     == {0, 1}

Children == [spawn_ok : BOOLEAN, dur : 0..MaxDur, code : ExitCodes]

\* communicate() that waits for the child however long it runs
communicate_no_timeout(child, timeout) ==
    IF ~child.spawn_ok
    THEN [outcome |-> "spawn_error", waited |-> 0]
    ELSE [outcome |-> IF child.code = 0 THEN "exit0" ELSE "nonzero",
          waited |-> child.dur]

\* Popen followed by process.communicate(timeout=...): how the wait ends
\* and how long it took
communicate(child, timeout) ==
    IF ~child.spawn_ok
    THEN [outcome |-> "spawn_error", waited |-> 0]
    ELSE IF child.dur > timeout
    THEN [outcome |-> "timeout", waited |-> timeout]
    ELSE [outcome |-> IF child.code = 0 THEN "exit0" ELSE "nonzero",
          waited |-> child.dur]

NoChild == [spawn_ok |-> FALSE, dur |-> 0, code |-> 1]

InitLogin ==
    /\ CoreInit
    /\ config_url = "ok"
    /\ tbl = NoTable
    /\ job = NoJob
    /\ app = NoApp
    /\ lgn = [pc |-> "status_check", status |-> NoChild, login |-> NoChild,
              cmds |-> <<>>, st |-> "not_run", lg |-> "not_run",
              killed |-> {}, kill_errors |-> {}, elapsed |-> 0,
              returned |-> NoneObj, raised |-> FALSE]

\* lines 22-54: the status check
StatusCheck ==
    /\ lgn.pc = "status_check"
    /\ \E child \in Children, kill_raises \in BOOLEAN :
         LET c == communicate(child, StatusTimeout)
             timed_out == c.outcome = "timeout"
         IN  /\ kill_raises => timed_out
             /\ lgn' = [lgn EXCEPT
                    !.status = child,
                    !.cmds = Append(@, "status_check"),
                    !.st = c.outcome,
                    !.elapsed = @ + c.waited,
                    !.killed = IF timed_out THEN @ \cup {"status_check"} ELSE @,
                    !.kill_errors = IF kill_raises
                                    THEN @ \cup {"status_check"} ELSE @,
                    !.returned = IF c.outcome = "exit0" THEN TRUE ELSE @,
                    !.pc = IF c.outcome = "exit0" THEN "returned" ELSE "login"]
    /\ UNCHANGED <<core, tbl, job, app>>

\* lines 57-93: the login command
LoginCommand ==
    /\ lgn.pc = "login"
    /\ \E child \in Children, kill_raises \in BOOLEAN :
         LET c == communicate(child, LoginTimeout)
             timed_out == c.outcome = "timeout"
         IN  /\ kill_raises => timed_out
             /\ lgn' = [lgn EXCEPT
                    !.login = child,
                    !.cmds = Append(@, "login"),
                    !.lg = c.outcome,
                    !.elapsed = @ + c.waited,
                    !.killed = IF timed_out THEN @ \cup {"login"} ELSE @,
                    !.kill_errors = IF kill_raises
                                    THEN @ \cup {"login"} ELSE @,
                    !.returned = (c.outcome = "exit0"),
                    !.pc = "returned"]
    /\ UNCHANGED <<core, tbl, job, app>>

NextLogin == StatusCheck \/ LoginCommand

SpecLogin == InitLogin /\ [][NextLogin]_vars

\* ================================================================ properties
Count(seq, x) == Cardinality({k \in 1..Len(seq) : seq[k] = x})

\* now(UTC) > expiry, or no expiry stored: the spec's notion of staleness
Stale(expiry, t) == expiry = NoneExp \/ t > expiry

\* C1: when a handler, right after a successful initialize(), passes the
\* client of get_client() to its data operation, that client was built
\* from the TokenManager's current access_token and the token is not
\* expired at that moment.  The claim's environment is token expiry and
\* credential-helper successes and failures, so behaviours in which a
\* WorkspaceClient construction raised are outside it.
C1_HandsFreshClient ==
    [][\A i \in Inv :
         (inv[i].client = NoClient /\ inv'[i].client # NoClient
          /\ ~ctor_raised')
         => /\ inv'[i].client = client'
            /\ client'.token = access_token'
            /\ access_token' # NoneTok
            /\ ~is_token_expired(token_expiry_datetime', now')]_vars

\* a client is handed over after a READY manager refreshed an expired token
C1_Witness ==
    \E i \in Inv :
        /\ inv[i].client # NoClient
        /\ ~ctor_raised
        /\ last.pre_complete /\ last.path = "refresh"
        /\ last.pre_token # access_token

\* C2: on a fresh manager with a working helper, the second of two
\* successive initialize() calls, the token unexpired throughout, is a
\* no-op: no credential-helper command, no new client, and client,
\* access_token, expiry and flag unchanged.
C2_SecondCallIsNoop ==
    (/\ last.call = 2
     /\ last.raised = "none"
     /\ last.pre_client # NoClient
     /\ ~Stale(last.pre_expiry, last.at)
     /\ ~Stale(last.pre_expiry, last.end))
    => /\ last.events = <<>>
       /\ client = last.pre_client
       /\ access_token = last.pre_token
       /\ token_expiry_datetime = last.pre_expiry
       /\ initialization_complete = last.pre_complete

\* the latest initialize() returned, and none before it had bound a client
FirstSuccessful ==
    /\ last.call >= 1
    /\ last.raised = "none"
    /\ last.pre_client = NoClient
    /\ ~last.pre_complete

\* C3: the first successful initialize() validates the configuration
\* before any credential-helper call, then calls get_valid_token, then
\* constructs the client, and leaves the flag set and the client bound.
C3_FirstInitializeFull ==
    FirstSuccessful
    => /\ Len(last.events) >= 3
       /\ last.events[1] = "validate_config"
       /\ Count(last.events, "validate_config") = 1
       /\ Count(last.events, "get_valid_token") = 1
       /\ last.events[Len(last.events)] = "construct_client"
       /\ initialization_complete
       /\ client # NoClient

\* C4: an initialize() that raises on a manager that has not reached READY
\* leaves it as freshly constructed: no client, no token, no expiry, flag
\* unset.
C4_FailureLeavesFresh ==
    (last.call >= 1 /\ last.raised # "none" /\ ~last.pre_complete)
    => /\ client = NoClient
       /\ access_token = NoneTok
       /\ token_expiry_datetime = NoneExp
       /\ ~initialization_complete

\* C5: initialize() on a READY manager whose token has expired takes the
\* partial path: one token fetch, no configuration validation, no status
\* check or login command, the flag stays set; and when the call returns,
\* the client is a new one built from the fetched token, which is unexpired.
C5_PartialPath ==
    (last.pre_complete /\ Stale(last.pre_expiry, last.at))
    => /\ last.path = "refresh"
       /\ Count(last.events, "token_fetch") = 1
       /\ Count(last.events, "validate_config") = 0
       /\ Count(last.events, "status_check") = 0
       /\ Count(last.events, "login") = 0
       /\ initialization_complete
       /\ last.raised = "none"
          => /\ Count(last.events, "construct_client") = 1
             /\ client.token = last.gvt.out.access_token
             /\ client.token = access_token
             /\ ~Stale(token_expiry_datetime, last.end)

C5_Witness ==
    /\ last.pre_complete
    /\ Stale(last.pre_expiry, last.at)
    /\ last.raised = "none"
    /\ client.token # last.pre_token

\* the token command's output parses to a token and an expiry
WellFormed(out) ==
    /\ out.exit = 0
    /\ out.json_ok
    /\ out.access_token # NoneTok
    /\ out.expiry >= 0

\* C6: refresh_token replaces access_token and token_expiry_datetime
\* together by the pair of one token-command output, or raises ValueError
\* 'Token refresh failed' and leaves both as they were.
C6_AtomicRefresh ==
    last.gvt.refreshed
    => LET g == last.gvt
       IN  /\ access_token = g.post_token
           /\ token_expiry_datetime = g.post_expiry
           /\ WellFormed(g.out)
              => /\ g.raised = "none"
                 /\ g.post_token = g.out.access_token
                 /\ g.post_expiry = g.out.expiry
           /\ ~WellFormed(g.out)
              => /\ g.raised = "ValueError"
                 /\ g.msg = "Token refresh failed"
                 /\ g.post_token = g.pre_token
                 /\ g.post_expiry = g.pre_expiry

\* a refresh fails on an output that carries a token, while another token
\* is stored
C6_Witness ==
    /\ last.gvt.refreshed
    /\ last.gvt.raised = "ValueError"
    /\ last.gvt.out.access_token # NoneTok
    /\ last.gvt.pre_token # NoneTok
    /\ last.gvt.pre_token # last.gvt.out.access_token
    /\ access_token = last.gvt.pre_token

\* C7: get_valid_token returns the cached token, runs no command and
\* changes no field when the token is not expired; runs one refresh_token
\* and returns the newly stored token when it is; and the credential
\* changes in no step other than such a call.
C7_GetValidToken ==
    /\ [](last.gvt.called
          => LET g == last.gvt
             IN  /\ ~Stale(g.pre_expiry, g.at)
                    => /\ ~g.refreshed
                       /\ g.cmds = <<>>
                       /\ g.raised = "none"
                       /\ g.ret = g.pre_token
                       /\ g.post_token = g.pre_token
                       /\ g.post_expiry = g.pre_expiry
                 /\ Stale(g.pre_expiry, g.at)
                    => /\ g.refreshed
                       /\ Count(g.cmds, "token_fetch") = 1
                       /\ g.raised = "none"
                          => g.ret = g.post_token /\ g.ret # NoneTok)
    /\ [][(access_token' # access_token
           \/ token_expiry_datetime' # token_expiry_datetime)
          => /\ calls' = calls + 1
             /\ last'.gvt.called
             /\ last'.gvt.refreshed
             /\ Stale(token_expiry_datetime, last'.gvt.at)]_vars

\* get_valid_token answered from the cache
C7_Witness ==
    /\ last.gvt.called
    /\ ~last.gvt.refreshed
    /\ last.gvt.ret # NoneTok
    /\ last.gvt.ret = access_token

\* C8: every refresh_token call makes exactly one login attempt and
\* exactly one token-fetch attempt, the login first.
C8_LoginThenFetch ==
    last.gvt.refreshed
    => /\ Count(last.gvt.cmds, "login") = 1
       /\ Count(last.gvt.cmds, "token_fetch") = 1
       /\ last.gvt.cmds[1] = "login"

\* C9: is_token_expired() is true exactly when no expiry was ever stored
\* (no refresh has succeeded yet) or the clock is strictly past the stored
\* expiry.
C9_ExpiredIff ==
    /\ (token_expiry_datetime = NoneExp) <=> ~ever_refreshed
    /\ is_token_expired(token_expiry_datetime, now)
         <=> (~ever_refreshed
              \/ (ever_refreshed /\ now > token_expiry_datetime))

\* the clock stands exactly at the stored expiry
C9_Witness ==
    /\ ever_refreshed
    /\ now = token_expiry_datetime
    /\ ~is_token_expired(token_expiry_datetime, now)

\* C10: whenever a fetched state is PENDING or RUNNING the executor sleeps
\* and fetches again; polling stops at the first other state, after which
\* no status is fetched.
C10_PollsWhileRunning ==
    \A i \in Inv :
        LET f == inv[i].fetches
            polling(k) == f[k][2] \in {"PENDING", "RUNNING"}
        IN  /\ \A k \in 1..(Len(f) - 1) : polling(k)
            /\ inv[i].pc # "check"
               => inv[i].sleeps = Cardinality({k \in 1..Len(f) : polling(k)})

\* members of a sequence
Range(seq) == {seq[k] : k \in 1..Len(seq)}

\* C11: get_table_sample returns a value only if the last fetched state is
\* SUCCEEDED.  When the last fetched state is FAILED, CANCELED or CLOSED it
\* raises "Failed to execute query" naming that state and, when the status
\* carries one, the remote error message; when the submission or a status
\* fetch raises, it raises "Failed to execute query" with the transport
\* error text.  A call that raised has returned no value.
C11_OnlySucceededReturns ==
    [][\A i \in Inv :
         LET f    == inv[i].fetches
             lst  == f[Len(f)]
             d    == inv'[i].detail
             query_error == /\ inv'[i].pc = "done"
                            /\ inv'[i].status = 500
                            /\ Len(d) >= 2
                            /\ d[1] = "Failed to execute query"
         IN  /\ (inv[i].pc \in {"submit", "fetch"} /\ inv'[i].pc = "done")
                => query_error /\ "transport error" \in Range(d)
             /\ (inv[i].pc = "check" /\ inv'[i] # inv[i]
                 /\ lst[2] \in Unsuccessful)
                => /\ query_error
                   /\ lst[2] \in Range(d)
                   /\ inv[i].error => "remote error message" \in Range(d)
             /\ (inv'[i].tool = "get_table_sample_tool"
                 /\ inv'[i].status = 200)
                => /\ Len(inv'[i].fetches) > 0
                   /\ inv'[i].fetches[Len(inv'[i].fetches)]
                        = StatementState("SUCCEEDED")]_vars

\* a statement was cancelled with a remote error message, and the call raised
C11_Witness ==
    \E i \in Inv :
        /\ inv[i].pc = "done"
        /\ inv[i].status = 500
        /\ Len(inv[i].fetches) > 0
        /\ inv[i].fetches[Len(inv[i].fetches)] = StatementState("CANCELED")
        /\ inv[i].error
        /\ "remote error message" \in Range(inv[i].detail)

\* C15: a tool that fails reports status 404 only when the cause is an
\* absent job or run, and 500 for every other cause, whichever tool it is
\* and whether initialize(), get_client() or the data operation raised.
C15_StatusCodes ==
    \A i \in Inv :
        (inv[i].pc = "done" /\ inv[i].status # 200)
        => /\ inv[i].status \in {404, 500}
           /\ inv[i].status = 404 <=> inv[i].detail = <<NotFound>>

\* C12: for every SUCCEEDED result with manifest columns c1..cn and data
\* rows r1..rm, lines 90-94 produce exactly m mappings in row order, the
\* i-th sending cj to the j-th value of ri, with keys in manifest order
\* (a row cut short has keys only for the values it has).
C12_RowMappings ==
    tbl.pc # "succeeded"
    => /\ tbl.raised # "KeyError"
       /\ Len(tbl.sample_dict) = Len(tbl.data_array)
       /\ \A i \in 1..Len(tbl.sample_dict) :
            LET row == tbl.data_array[i]
                d   == tbl.sample_dict[i]
            IN  /\ d.keys = SubSeq(tbl.column_names, 1, Len(row))
                /\ \A j \in 1..Len(row) : d.val[tbl.column_names[j]] = row[j]

\* the positions of the sampled rows that have key c
RowsWith(c, sample_dict) ==
    {k \in 1..Len(sample_dict) : HasKey(sample_dict[k], c)}

\* C13: after the merge of a non-empty sample, every metadata column c has
\* sample_values equal to the values row[c] of exactly the sampled rows
\* that contain key c, in row order; a row without the key contributes
\* nothing.
C13_MergeSkipsMissing ==
    (tbl.pc \in {"merged", "returned"} /\ Len(tbl.sample_dict) > 0)
    => \A j \in 1..Len(tbl.table_metadata.columns) :
         LET col == tbl.table_metadata.columns[j]
             idx == RowsWith(col.name, tbl.sample_dict)
         IN  /\ col.name = tbl.meta_cols[j]
             /\ col.has_sample_values
             /\ Len(col.sample_values) = Cardinality(idx)
             /\ \A k \in idx :
                  col.sample_values[Cardinality({h \in idx : h <= k})]
                    = tbl.sample_dict[k].val[col.name]

\* columns [a, b] with rows [{a:1, b:2}, {a:2}] gave a = [1, 2], b = [2]
C13_Witness ==
    /\ tbl.pc = "returned"
    /\ tbl.meta_cols = <<"a", "b">>
    /\ tbl.column_names = <<"a", "b">>
    /\ tbl.data_array = << <<1, 2>>, <<2>> >>
    /\ tbl.result.columns[1].sample_values = <<1, 2>>
    /\ tbl.result.columns[2].sample_values = <<2>>

\* C14: with persistence enabled, whichever file operation of
\* _save_table_data fails, get_table_sample raises nothing and returns the
\* merged metadata it returns with persistence disabled.
C14_SaveFailureSwallowed ==
    (tbl.pc \in {"returned", "raised"} /\ tbl.save_table_metadata
     /\ tbl.fail_at # 0)
    => /\ tbl.pc = "returned"
       /\ tbl.raised = "none"
       /\ tbl.result = merge_samples(table_dict(tbl.meta_cols),
                                     tbl.sample_dict)

\* writing table_metadata.json failed after sample_data.json was written,
\* and the merged metadata of a non-empty sample was returned
C14_Witness ==
    /\ tbl.pc = "returned"
    /\ tbl.save_table_metadata
    /\ tbl.fail_at = Len(SaveSteps(tbl.dir_exists))
    /\ tbl.written # <<>>
    /\ Len(tbl.sample_dict) > 0
    /\ Len(tbl.result.columns) > 0
    /\ tbl.result.columns[1].has_sample_values

\* the SDK calls that fetch a run or a task output
FetchedRun == \E k \in 1..Len(job.calls) :
                 job.calls[k] \in {"jobs.get_run", "jobs.get_run_output"}

\* C16: get_run_result raises the not-found ValueError when no job has the
\* name, when the job has no completed run, and when the filter is set
\* and no completed run is FAILED; in none of these cases does it fetch a
\* run or a task output.
C16_NotFoundCases ==
    LET no_job    == job.answered >= 1 /\ ~job.found
        no_run    == job.answered >= 2 /\ job.run_list = <<>>
        no_failed == /\ job.answered >= 2
                     /\ job.filter_for_failed_runs
                     /\ \A k \in 1..Len(job.run_list) :
                          job.run_list[k].result_state # "FAILED"
    IN  (no_job \/ no_run \/ no_failed)
        => /\ job.pc = "raised"
           /\ job.raised = "ValueError"
           /\ ~FetchedRun

\* the runs of the list that the filter admits
EligibleRuns ==
    {k \in 1..Len(job.run_list) :
        ~job.filter_for_failed_runs
        \/ job.run_list[k].result_state = "FAILED"}

\* C17: from the list of completed runs get_run_result selects the most
\* recent run, or under filter_for_failed_runs the most recent FAILED
\* run: the selected run is in the list and eligible, no eligible run is
\* more recent, and a run is selected whenever one is eligible.
C17_MostRecentRun ==
    job.answered >= 2
    => /\ EligibleRuns # {} => job.run_id # NoneId
       /\ job.run_id # NoneId
          => \E k \in EligibleRuns :
               /\ job.run_list[k].run_id = job.run_id
               /\ \A h \in EligibleRuns :
                    job.run_list[h].start_time <= job.run_list[k].start_time

\* under the filter the most recent run was not FAILED, an older one was
\* selected, and its output was returned
C17_Witness ==
    /\ job.pc = "returned"
    /\ job.filter_for_failed_runs
    /\ Len(job.run_list) >= 2
    /\ job.run_list[1].result_state # "FAILED"
    /\ job.run_id = job.run_list[2].run_id

\* the tasks of the run that the filter admits
EligibleTasks ==
    {k \in 1..Len(job.tasks) :
        ~job.filter_for_failed_runs
        \/ job.tasks[k].result_state = "FAILED"}

\* C20: the task whose output get_run_result fetches has the maximum
\* end_time among the tasks that satisfy the filter; a task that does not
\* satisfy it never displaces or blocks an eligible one.
C20_LatestEligibleTask ==
    job.answered >= 3
    => /\ EligibleTasks # {} => job.last_failed_id # NoneId
       /\ job.last_failed_id # NoneId
          => \E k \in EligibleTasks :
               /\ TaskId(k) = job.last_failed_id
               /\ \A h \in EligibleTasks :
                    job.tasks[h].end_time <= job.tasks[k].end_time
       /\ job.pc = "returned" => job.output_of = job.last_failed_id

\* a task that is not FAILED came first and ended later than the FAILED
\* task, whose output was fetched under the filter
C20_Witness ==
    /\ job.pc = "returned"
    /\ job.filter_for_failed_runs
    /\ Len(job.tasks) = 2
    /\ job.tasks[1].result_state # "FAILED"
    /\ job.tasks[1].end_time > job.tasks[2].end_time
    /\ job.output_of = TaskId(2)

\* a workspace section lacks a required field, or gives a field a value
\* whose type is not the field's type
LacksOrMistypes(file) ==
    /\ file.top = "workspace"
    /\ \/ \E k \in 1..Len(RequiredFields) :
            TypeOf(file.workspace[RequiredFields[k]])
               # FieldType[RequiredFields[k]]
       \/ \E k \in 1..Len(OptionalFields) :
            file.workspace[OptionalFields[k]]
               \notin {"absent", FieldType[OptionalFields[k]]}

\* C18: a configuration that lacks a required workspace field or gives a
\* field a value of the wrong type is rejected by load_config; up to then
\* nothing but logging set-up and the configuration load has happened,
\* and the application constructs no ClientManager and no tool server
\* from it.
C18_InvalidConfigRejected ==
    (app.inits > 0 /\ LacksOrMistypes(app.file))
    => /\ app.last.op = "initialize"
          => /\ app.last.raised = "Exception"
             /\ app.last.effects = <<"setup_logging", "load_config">>
       /\ app.client_manager = NoneObj
       /\ app.mcp_server = NoServer

\* C19: get_mcp_server() and run() raise RuntimeError in every state in
\* which no initialize() call has returned (none made, or all failed);
\* once an initialize() has returned, get_mcp_server() returns the server
\* that initialize created, with the four tools registered.
C19_ServerOnlyAfterInit ==
    /\ ~app.ever_ok => app.mcp_server = NoServer
    /\ (~app.ever_ok /\ app.last.op \in {"get_mcp_server", "run"})
       => app.last.raised = "RuntimeError"
    /\ (app.ever_ok /\ app.last.op = "get_mcp_server")
       => /\ app.last.raised = "none"
          /\ app.last.returned = app.mcp_server.id
          /\ app.mcp_server.tools = Tools
          /\ app.mcp_server.client_manager # NoneObj

\* initialize() failed, was called again and returned, and get_mcp_server()
\* then handed out the server
C19_Witness ==
    /\ app.ever_ok
    /\ app.failed > 0
    /\ app.last.op = "get_mcp_server"
    /\ app.last.raised = "none"
    /\ app.last.returned # NoneObj

\* C21: in the metadata get_table_sample returns, a column has a
\* sample_values entry if and only if at least one sampled row has a value
\* under the column's name; a column without sampled rows has no entry.
C21_SampleValuesIffSampled ==
    tbl.pc = "returned"
    => \A j \in 1..Len(tbl.result.columns) :
         tbl.result.columns[j].has_sample_values
           <=> RowsWith(tbl.result.columns[j].name, tbl.sample_dict) # {}

\* C28: is_initialized() is true exactly when get_client() returns a
\* client without raising, after any sequence of initialize() calls and
\* clock ticks.
C28_InitializedIffClient ==
    is_initialized(initialization_complete, client)
      <=> get_client(client).raised = "none"

\* C25: get_table_sample returns or raises only once the remote statement
\* has left PENDING and RUNNING: as long as the fetched state is one of
\* these it keeps polling.
C25_ReturnsOnlyAfterTerminal ==
    \A i \in Inv :
        (inv[i].pc = "done" /\ Len(inv[i].fetches) > 0)
        => inv[i].fetches[Len(inv[i].fetches)][2]
             \notin {"PENDING", "RUNNING"}

\* C22: a configuration whose workspace url or warehouse_id is an empty
\* string is rejected by load_config: initialize() raises after nothing
\* but logging set-up and the configuration load, and no ClientManager or
\* tool server is built from it.
C22_EmptyStringRejected ==
    (app.inits > 0 /\ app.file.top = "workspace"
     /\ (app.file.workspace.url = "empty_str"
         \/ app.file.workspace.warehouse_id = "empty_str"))
    => /\ app.last.op = "initialize"
          => /\ app.last.raised = "Exception"
             /\ app.last.effects = <<"setup_logging", "load_config">>
       /\ app.client_manager = NoneObj
       /\ app.mcp_server = NoServer

\* C23: a configuration with url, warehouse_id and warehouse_name that
\* omits sample_size is accepted by load_config, so that initialize() goes
\* on to build the ClientManager.
C23_SampleSizeOptional ==
    (app.last.op = "initialize" /\ app.file.top = "workspace"
     /\ app.file.workspace.url = "str"
     /\ app.file.workspace.warehouse_id = "str"
     /\ app.file.workspace.warehouse_name = "str"
     /\ app.file.workspace.sample_size = "absent"
     /\ app.file.workspace.save_table_metadata = "absent")
    => /\ Len(app.last.effects) > 2
       /\ app.last.effects[3] = "ClientManager"
       /\ app.client_manager # NoneObj

\* C24: a failing data operation leaves the shared ClientManager state as
\* it was: the step in which a tool invocation fails after its
\* initialize() step, and every other step that is not an initialize()
\* call, changes neither client, access_token, token expiry nor the
\* initialization flag.
C24_FailureKeepsManager ==
    [][/\ (\E i \in Inv : /\ inv[i].pc \notin {"idle", "done"}
                          /\ inv'[i].pc = "done"
                          /\ inv'[i].status # 200)
          => mgr' = mgr
       /\ calls' = calls => mgr' = mgr]_vars

\* an invocation failed in its data operation, and the manager still has
\* the client the invocation was given and the token it was built from
C24_Witness ==
    \E i \in Inv :
        /\ inv[i].pc = "done"
        /\ inv[i].status # 200
        /\ inv[i].client # NoClient
        /\ client = inv[i].client
        /\ access_token = client.token

\* position of a step of get_table_sample in the prescribed order
Rank(step) ==
    CASE step = "submit"   -> 1
      [] step = "poll"     -> 2
      [] step = "metadata" -> 3
      [] step = "merge"    -> 4
      [] step = "persist"  -> 5

\* C26: within one get_table_sample invocation the steps are taken in the
\* order submit, poll(s), metadata lookup, merge, persistence, none before
\* the one in front of it; the metadata lookup is issued only after
\* SUCCEEDED was fetched; a failed query is followed by no metadata
\* lookup and no file write, a failed metadata lookup by no merge and no
\* file write.
C26_StepsInOrder ==
    \A i \in Inv :
        LET st == inv[i].steps
            f  == inv[i].fetches
        IN  /\ Len(st) > 0 => st[1] = "submit"
            /\ \A k \in 1..(Len(st) - 1) :
                 \/ Rank(st[k + 1]) = Rank(st[k]) + 1
                 \/ st[k] = "poll" /\ st[k + 1] = "poll"
            /\ "metadata" \in Range(st)
               => Len(f) > 0 /\ f[Len(f)] = StatementState("SUCCEEDED")
            /\ (inv[i].pc = "done" /\ Len(inv[i].detail) > 0
                /\ inv[i].detail[1] = "Failed to execute query")
               => Range(st) \subseteq {"submit", "poll"}
            /\ (inv[i].pc = "done" /\ Len(inv[i].detail) > 0
                /\ inv[i].detail[1] = "Failed to retrieve table metadata")
               => Range(st) \subseteq {"submit", "poll", "metadata"}

\* all five steps were taken and the metadata was returned
C26_Witness ==
    \E i \in Inv :
        /\ inv[i].pc = "done"
        /\ inv[i].status = 200
        /\ inv[i].steps = <<"submit", "poll", "metadata", "merge", "persist">>

\* the child exited with code 0 before its communicate() timeout
ExitedZeroWithin(child, timeout) ==
    child.spawn_ok /\ child.code = 0 /\ child.dur <= timeout

\* C27: databricks_login does not raise and returns a boolean; the login
\* command is run exactly when the status check did not exit 0 within
\* 15 s; the result is True exactly when the status check exited 0 or the
\* login command was run and exited 0 within 30 s; a child that outlives
\* its timeout is killed, the call has then waited no longer than the two
\* timeouts together, and a login timeout gives False.
C27_LoginTotal ==
    /\ ~lgn.raised
    /\ lgn.pc = "returned" =>
         LET ran_login == "login" \in Range(lgn.cmds)
         IN  /\ lgn.returned \in BOOLEAN
             /\ lgn.cmds[1] = "status_check"
             /\ ran_login <=> ~ExitedZeroWithin(lgn.status, StatusTimeout)
             /\ lgn.returned <=>
                  \/ ExitedZeroWithin(lgn.status, StatusTimeout)
                  \/ ran_login /\ ExitedZeroWithin(lgn.login, LoginTimeout)
             /\ (lgn.status.spawn_ok /\ lgn.status.dur > StatusTimeout)
                  => "status_check" \in lgn.killed
             /\ (ran_login /\ lgn.login.spawn_ok /\ lgn.login.dur > LoginTimeout)
                  => "login" \in lgn.killed /\ lgn.returned = FALSE
             /\ lgn.elapsed <= StatusTimeout + LoginTimeout

\* both children outlived their timeouts and were killed; False came back
C27_Witness ==
    /\ lgn.pc = "returned"
    /\ lgn.returned = FALSE
    /\ lgn.killed = {"status_check", "login"}
    /\ lgn.elapsed = StatusTimeout + LoginTimeout

====
